---- MODULE Spec2Model ----
(***************************************************************************)
(* Model of generate_visual_lineage.py: the mapping parser                 *)
(* (split_origins and the per-row cell normalisation), the node classifier *)
(* (node_type_heuristic) and the graph builder (build_graph_from_csv),     *)
(* followed by the node pass of render_pyvis.                              *)
(*                                                                         *)
(* A Python str is a sequence of one-character strings; the em-dash        *)
(* U+2014 is the single character EmDash.  None and the pandas NaN are     *)
(* one-element sequences whose element is no character, so they differ     *)
(* from every str.  The networkx DiGraph is a record of a node table       *)
(* (name -> stored type attribute, or NoAttr for a node that has no        *)
(* "type" attribute) and an edge table (<<source, target>> -> label).      *)
(***************************************************************************)
EXTENDS Integers, Sequences, FiniteSets, TLC

VARIABLES pc, df, i, G, net, h_name, h_final, h_type

vars == <<pc, df, i, G, net, h_name, h_final, h_type>>

\* ------------------------------------------------------------------------
\* Bounds
\* ------------------------------------------------------------------------
MaxRows == 2

\* ------------------------------------------------------------------------
\* Python values
\* ------------------------------------------------------------------------
None == <<"<None>">>

NaN == <<"<NaN>">>

EmDash == "<U+2014>"

NoAttr == "<no type attribute>"

\* ------------------------------------------------------------------------
\* str methods
\* ------------------------------------------------------------------------
isspace(c) == c = " "

RECURSIVE lstrip(_)
lstrip(s) ==
    IF s # <<>> /\ isspace(Head(s)) THEN lstrip(Tail(s)) ELSE s

RECURSIVE rstrip(_)
rstrip(s) ==
    IF s # <<>> /\ isspace(s[Len(s)]) THEN rstrip(SubSeq(s, 1, Len(s) - 1)) ELSE s

strip(s) == rstrip(lstrip(s))

startswith(s, p) ==
    Len(p) <= Len(s) /\ SubSeq(s, 1, Len(p)) = p

endswith(s, p) ==
    Len(p) <= Len(s) /\ SubSeq(s, Len(s) - Len(p) + 1, Len(s)) = p

contains(s, p) ==
    \E k \in 1..(Len(s) - Len(p) + 1) : SubSeq(s, k, k + Len(p) - 1) = p

RECURSIVE split(_, _)
split(s, sep) ==
    IF \E k \in 1..Len(s) : s[k] = sep
    THEN LET k == CHOOSE j \in 1..Len(s) :
                      s[j] = sep /\ \A m \in 1..(j - 1) : s[m] # sep
         IN  <<SubSeq(s, 1, k - 1)>> \o split(SubSeq(s, k + 1, Len(s)), sep)
    ELSE <<s>>

str(x) == IF x = NaN THEN <<"n", "a", "n">> ELSE x

isna(x) == x = NaN

truthy(x) == x # None /\ x # <<>>

\* ------------------------------------------------------------------------
\* split_origins
\* ------------------------------------------------------------------------
RECURSIVE keep_parts(_)
keep_parts(ps) ==
    IF ps = <<>> THEN <<>>
    ELSE IF strip(Head(ps)) # <<>> /\ strip(Head(ps)) # <<EmDash>>
         THEN <<strip(Head(ps))>> \o keep_parts(Tail(ps))
         ELSE keep_parts(Tail(ps))

\* Variant: the placeholder token is not discarded.
RECURSIVE keep_nonblank(_)
keep_nonblank(ps) ==
    IF ps = <<>> THEN <<>>
    ELSE IF strip(Head(ps)) # <<>>
         THEN <<strip(Head(ps))>> \o keep_nonblank(Tail(ps))
         ELSE keep_nonblank(Tail(ps))

split_origins_keep_placeholder(orig) ==
    IF isna(orig) THEN <<>> ELSE keep_nonblank(split(str(orig), ","))

split_origins(orig) ==
    IF isna(orig) THEN <<>> ELSE keep_parts(split(str(orig), ","))

\* ------------------------------------------------------------------------
\* node_type_heuristic
\* ------------------------------------------------------------------------
is_dataframe_name(name) ==
    \/ endswith(name, <<"_", "d", "f">>)
    \/ startswith(name, <<"d", "f", "_">>)
    \/ contains(name, <<"f", "a", "t", "o">>)
    \/ contains(name, <<"v", "w", "_">>)

is_file_name(name) ==
    \/ contains(name, <<"/">>)
    \/ endswith(name, <<".", "c", "s", "v">>)
    \/ endswith(name, <<".", "p", "a", "r", "q", "u", "e", "t">>)
    \/ startswith(name, <<"d", "a", "t", "a", "/">>)

is_table_name(name) == contains(name, <<".">>)

\* Variant: the file rule is tried before the dataframe rule.
node_type_heuristic_file_first(name, final_table) ==
    IF str(name) = final_table THEN "final_table"
    ELSE IF is_file_name(str(name)) THEN "file"
    ELSE IF is_dataframe_name(str(name)) THEN "dataframe"
    ELSE IF is_table_name(str(name)) THEN "table"
    ELSE "dataframe"

node_type_heuristic(name, final_table) ==
    IF str(name) = final_table THEN "final_table"
    ELSE IF is_dataframe_name(str(name)) THEN "dataframe"
    ELSE IF is_file_name(str(name)) THEN "file"
    ELSE IF is_table_name(str(name)) THEN "table"
    ELSE "dataframe"

\* ------------------------------------------------------------------------
\* networkx.DiGraph: add_node / add_edge
\* ------------------------------------------------------------------------
EmptyGraph == [node |-> <<>>, edge |-> <<>>]

in_G(n, g) == n \in DOMAIN g.node

\* G.add_node(n, type=t): creates the node or updates its attribute.
add_node(g, n, t) ==
    [g EXCEPT !.node = (n :> t) @@ g.node]

\* Variant: an existing (u, v) entry keeps its label.
add_edge_keep_first(g, u, v, l) ==
    [node |-> g.node @@ (u :> NoAttr) @@ (v :> NoAttr),
     edge |-> g.edge @@ (<<u, v>> :> l)]

\* G.add_edge(u, v, label=l): creates u and v without attributes when they
\* are not nodes yet; an existing (u, v) entry has its label replaced.
add_edge(g, u, v, l) ==
    [node |-> g.node @@ (u :> NoAttr) @@ (v :> NoAttr),
     edge |-> (<<u, v>> :> l) @@ g.edge]

in_degree(g, n) == Cardinality({e \in DOMAIN g.edge : e[2] = n})

out_degree(g, n) == Cardinality({e \in DOMAIN g.edge : e[1] = n})

\* ------------------------------------------------------------------------
\* build_graph_from_csv: the per-row locals
\* ------------------------------------------------------------------------
or_None(s) == IF s # <<>> THEN s ELSE None

row_final_table(row) == or_None(strip(str(row.tabela_final)))

row_df_name(row) == or_None(strip(str(row.dataframe)))

row_transform(row) == strip(str(row.transformacao))

row_origins(row) == split_origins(row.origem)

edge_label(transform) ==
    IF transform # <<>> /\ transform # <<EmDash>> THEN transform ELSE <<>>

edge_target(df_name, origin) == IF truthy(df_name) THEN df_name ELSE origin

\* one pass of the loop over origins (lines 69-73)
add_origin(g, origin, df_name, final_table, transform) ==
    LET g1 == IF ~in_G(origin, g)
              THEN add_node(g, origin, node_type_heuristic(origin, final_table))
              ELSE g
    IN  add_edge(g1, origin, edge_target(df_name, origin), edge_label(transform))

RECURSIVE add_origins(_, _, _, _, _)
add_origins(g, origins, df_name, final_table, transform) ==
    IF origins = <<>> THEN g
    ELSE add_origins(add_origin(g, Head(origins), df_name, final_table, transform),
                     Tail(origins), df_name, final_table, transform)

\* Variant: the dataframe node step is left out.
add_df_node_never(g, df_name, final_table) == g

\* lines 76-77
add_df_node(g, df_name, final_table) ==
    IF truthy(df_name) /\ ~in_G(df_name, g)
    THEN add_node(g, df_name, node_type_heuristic(df_name, final_table))
    ELSE g

\* Variant: the final table node is left for add_edge to create.
add_final_edge_untyped(g, df_name, final_table, transform) ==
    IF truthy(final_table) /\ truthy(df_name) /\ final_table # df_name
    THEN add_edge(g, df_name, final_table, edge_label(transform))
    ELSE g

\* Variant: a final table without a dataframe name still gets its node.
add_final_edge_isolated(g, df_name, final_table, transform) ==
    LET g1 == IF truthy(final_table) /\ ~in_G(final_table, g)
              THEN add_node(g, final_table, "final_table")
              ELSE g
    IN  IF truthy(final_table) /\ truthy(df_name) /\ final_table # df_name
        THEN add_edge(g1, df_name, final_table, edge_label(transform))
        ELSE g1

\* lines 80-83
add_final_edge(g, df_name, final_table, transform) ==
    IF truthy(final_table) /\ truthy(df_name) /\ final_table # df_name
    THEN LET g1 == IF ~in_G(final_table, g)
                   THEN add_node(g, final_table, "final_table")
                   ELSE g
         IN  add_edge(g1, df_name, final_table, edge_label(transform))
    ELSE g

\* the body of the loop over df.iterrows() (lines 62-83)
fold_row(g, row) ==
    LET final_table == row_final_table(row)
        df_name     == row_df_name(row)
        transform   == row_transform(row)
        origins     == row_origins(row)
        g1 == add_origins(g, origins, df_name, final_table, transform)
        g2 == add_df_node(g1, df_name, final_table)
    IN  add_final_edge(g2, df_name, final_table, transform)

\* ------------------------------------------------------------------------
\* render_pyvis: the node pass (lines 98-104) and the edge pass (106-108)
\* ------------------------------------------------------------------------
type_style ==
    [file        |-> [color |-> "#f4a261", shape |-> "box"],
     table       |-> [color |-> "#2a9d8f", shape |-> "ellipse"],
     dataframe   |-> [color |-> "#264653", shape |-> "dot"],
     final_table |-> [color |-> "#e76f51", shape |-> "diamond"]]

attrs_get_type(attr) == IF attr = NoAttr THEN "dataframe" ELSE attr

net_node(g, n) ==
    LET ntype == attrs_get_type(g.node[n])
        style == IF ntype \in DOMAIN type_style THEN type_style[ntype]
                 ELSE [color |-> "#888", shape |-> "dot"]
    IN  [ntype |-> ntype, in_deg |-> in_degree(g, n), out_deg |-> out_degree(g, n),
         color |-> style.color, shape |-> style.shape]

render(g) ==
    [nodes |-> [n \in DOMAIN g.node |-> net_node(g, n)],
     edges |-> g.edge]

\* ------------------------------------------------------------------------
\* pandas.read_csv: a field whose text is one of the default NA strings is
\* read as NaN; any other field is read as the str it holds.
\* ------------------------------------------------------------------------
STR_NA_VALUES ==
    {<<>>, <<"N", "A">>, <<"n", "a", "n">>, <<"N", "a", "N">>, <<"n", "u", "l", "l">>}

read_cell(text) == IF text \in STR_NA_VALUES THEN NaN ELSE text

read_csv(csv) ==
    [k \in 1..Len(csv) |->
        [tabela_final  |-> read_cell(csv[k].tabela_final),
         dataframe     |-> read_cell(csv[k].dataframe),
         origem        |-> read_cell(csv[k].origem),
         transformacao |-> read_cell(csv[k].transformacao)]]

\* ------------------------------------------------------------------------
\* Inputs: the texts of the four canonical columns of a mapping file
\* ------------------------------------------------------------------------
NameA == <<"a">>

NameB == <<"s", ".", "t">>

FinalTexts == {<<>>, <<" ">>, NameA}

DataFrameTexts == {<<" ">>, NameA, NameB}

OrigemTexts ==
    {<<" ", EmDash, " ">>, <<"-">>, NameA \o <<",", " ">> \o NameB}

TransformTexts == {<<"j">>, <<EmDash>>}

RowTexts ==
    [tabela_final : FinalTexts, dataframe : DataFrameTexts,
     origem : OrigemTexts, transformacao : TransformTexts]

\* ------------------------------------------------------------------------
\* The mapping of example.py's pipeline: its last two steps as rows
\* ------------------------------------------------------------------------
vendas_por_cidade == 
    <<"v", "e", "n", "d", "a", "s", "_", "p", "o", "r", "_", "c", "i", "d", "a", "d", "e">>

fato_vendas_df == 
    <<"f", "a", "t", "o", "_", "v", "e", "n", "d", "a", "s", "_", "d", "f">>

pedidos_clientes_df == 
    <<"p", "e", "d", "i", "d", "o", "s", "_", "c", "l", "i", "e", "n", "t", "e", "s", "_", "d", "f">>

itens_produtos_df == 
    <<"i", "t", "e", "n", "s", "_", "p", "r", "o", "d", "u", "t", "o", "s", "_", "d", "f">>

pedidos_df == 
    <<"p", "e", "d", "i", "d", "o", "s", "_", "d", "f">>

cliente_endereco_df == 
    <<"c", "l", "i", "e", "n", "t", "e", "_", "e", "n", "d", "e", "r", "e", "c", "o", "_", "d", "f">>

join_groupby == <<"j", "o", "i", "n", "+", "g", "r", "o", "u", "p", "b", "y">>

join == <<"j", "o", "i", "n">>

ScenarioCsv ==
    <<[tabela_final  |-> vendas_por_cidade,
       dataframe     |-> fato_vendas_df,
       origem        |-> pedidos_clientes_df \o <<",", " ">> \o itens_produtos_df,
       transformacao |-> join_groupby],
      [tabela_final  |-> <<>>,
       dataframe     |-> pedidos_clientes_df,
       origem        |-> pedidos_df \o <<",", " ">> \o cliente_endereco_df,
       transformacao |-> join]>>

\* the files of n rows over the column texts above
CsvInputs(n) == [1..n -> RowTexts]

\* ------------------------------------------------------------------------
\* The program: main -> build_graph_from_csv -> render_pyvis
\* ------------------------------------------------------------------------
EmptyNet == [nodes |-> <<>>, edges |-> <<>>]

Init ==
    /\ pc = "start"
    /\ df = <<>>
    /\ i = 0
    /\ G = EmptyGraph
    /\ net = EmptyNet
    /\ h_name = <<>>
    /\ h_final = None
    /\ h_type = "<unset>"

\* lines 37-59: read the file, G = nx.DiGraph()
ReadCsv ==
    /\ pc = "start"
    /\ \/ \E n \in 0..MaxRows : \E csv \in CsvInputs(n) : df' = read_csv(csv)
       \/ df' = read_csv(ScenarioCsv)
    /\ i' = 0
    /\ G' = EmptyGraph
    /\ pc' = "loop"
    /\ UNCHANGED <<net, h_name, h_final, h_type>>

\* lines 61-83: one iteration of the loop over the rows
FoldRow ==
    /\ pc = "loop"
    /\ i < Len(df)
    /\ i' = i + 1
    /\ G' = fold_row(G, df[i + 1])
    /\ UNCHANGED <<pc, df, net, h_name, h_final, h_type>>

\* line 85: return G
Return ==
    /\ pc = "loop"
    /\ i = Len(df)
    /\ pc' = "returned"
    /\ UNCHANGED <<df, i, G, net, h_name, h_final, h_type>>

\* lines 98-108: render_pyvis copies every node and edge into the network
RenderPyvis ==
    /\ pc = "returned"
    /\ net' = render(G)
    /\ pc' = "rendered"
    /\ UNCHANGED <<df, i, G, h_name, h_final, h_type>>

Next == ReadCsv \/ FoldRow \/ Return \/ RenderPyvis

Spec == Init /\ [][Next]_vars

\* ------------------------------------------------------------------------
\* The classifier on its own: node_type_heuristic(h_name, h_final)
\* ------------------------------------------------------------------------
HPrefixes == {<<>>, <<"d", "f", "_">>, <<"d", "a", "t", "a", "/">>}

HMiddles ==
    {<<"x">>, <<"f", "a", "t", "o">>, <<"v", "w", "_">>, <<"a", "/", "b">>,
     <<"s", ".", "t">>, <<"d", "f">>}

HSuffixes ==
    {<<>>, <<"_", "d", "f">>, <<".", "c", "s", "v">>,
     <<".", "p", "a", "r", "q", "u", "e", "t">>}

HNames == {p \o m \o s : p \in HPrefixes, m \in HMiddles, s \in HSuffixes}

HFinals == {None, <<"x">>, <<"a", "/", "b">>, <<"s", ".", "t", "_", "d", "f">>}

InitClassify ==
    /\ pc = "h_call"
    /\ h_name \in HNames
    /\ h_final \in HFinals \cup {h_name}
    /\ h_type = "<unset>"
    /\ df = <<>>
    /\ i = 0
    /\ G = EmptyGraph
    /\ net = EmptyNet

Classify ==
    /\ pc = "h_call"
    /\ h_type' = node_type_heuristic(h_name, h_final)
    /\ pc' = "h_done"
    /\ UNCHANGED <<df, i, G, net, h_name, h_final>>

NextClassify == Classify

SpecClassify == InitClassify /\ [][NextClassify]_vars

\* ========================================================================
\* Properties
\* ========================================================================

\* The names a folded record refers to, as the loop body computes them.
HasDf(row) == truthy(row_df_name(row))

HasFinal(row) == truthy(row_final_table(row))

OriginsOf(row) == {row_origins(row)[k] : k \in 1..Len(row_origins(row))}

LinksFinal(row) ==
    HasFinal(row) /\ HasDf(row) /\ row_final_table(row) # row_df_name(row)

\* The ordered pairs a record produces an edge for.
OriginEdgesOf(row) ==
    {<<o, IF HasDf(row) THEN row_df_name(row) ELSE o>> : o \in OriginsOf(row)}

FinalEdgesOf(row) ==
    IF LinksFinal(row) THEN {<<row_df_name(row), row_final_table(row)>>} ELSE {}

EdgesOf(row) == OriginEdgesOf(row) \cup FinalEdgesOf(row)

LabelOf(row) ==
    IF row_transform(row) \in {<<>>, <<EmDash>>} THEN <<>> ELSE row_transform(row)

NodeTypes == {"file", "table", "dataframe", "final_table"}

\* C1: after any sequence of records is folded, the edge table holds no
\* edge whose source equals its target.
C1_NoSelfLoop ==
    \A e \in DOMAIN G.edge : e[1] # e[2]

\* A step of the loop: row i + 1 is folded into G, giving G'.
FoldStep == pc = "loop" /\ i < Len(df) /\ i' = i + 1

\* C2 (as claimed): right after a record with a final table, a dataframe
\* name and the two different is folded, the node named after the final
\* table has type final_table, whatever it was before.
C2_FinalTableForced ==
    (i >= 1 /\ LinksFinal(df[i])) =>
        /\ in_G(row_final_table(df[i]), G)
        /\ G.node[row_final_table(df[i])] = "final_table"

\* C2 (amended): right after such a record is folded the node named after
\* the final table exists; it has type final_table when it was no node
\* before the record, and otherwise keeps what it had stored before.
C2_FinalTableTypedWhenNew ==
    [][(FoldStep /\ LinksFinal(df[i + 1])) =>
          LET ft == row_final_table(df[i + 1])
          IN  /\ in_G(ft, G')
              /\ IF in_G(ft, G) THEN G'.node[ft] = G.node[ft]
                 ELSE G'.node[ft] = "final_table"]_vars

C2_Witness ==
    /\ i = 2
    /\ LinksFinal(df[1])
    /\ LinksFinal(df[2])
    /\ row_final_table(df[1]) # row_final_table(df[2])
    /\ row_final_table(df[2]) \notin OriginsOf(df[1]) \cup {row_df_name(df[1])}
    /\ G.node[row_final_table(df[2])] = "final_table"

\* C3: in the returned graph an edge table entry carries the label derived
\* from the last record that produces an edge for its pair, for origin ->
\* dataframe edges and for dataframe -> final table edges alike.
C3_LastWriteWins ==
    pc = "returned" =>
        LET produced == [k \in 1..i |-> EdgesOf(df[k])]
            label    == [k \in 1..i |-> LabelOf(df[k])]
        IN  \A e \in DOMAIN G.edge :
                \E k \in 1..i :
                    /\ e \in produced[k]
                    /\ \A m \in (k + 1)..i : e \notin produced[m]
                    /\ G.edge[e] = label[k]

C3_Witness ==
    /\ pc = "returned"
    /\ i = 2
    /\ LabelOf(df[1]) # LabelOf(df[2])
    /\ \E e \in OriginEdgesOf(df[1]) \cap OriginEdgesOf(df[2]) :
           e \notin FinalEdgesOf(df[1]) \cup FinalEdgesOf(df[2]) /\ G.edge[e] = LabelOf(df[2])
    /\ \E e \in FinalEdgesOf(df[1]) \cap FinalEdgesOf(df[2]) :
           e \notin OriginEdgesOf(df[1]) \cup OriginEdgesOf(df[2]) /\ G.edge[e] = LabelOf(df[2])

\* C4: the two rows of the example mapping give exactly the six nodes with
\* their types (read the way the renderer reads them, an absent type
\* attribute counting as dataframe), and the two named edges with their
\* labels.
C4_Scenario ==
    (pc = "rendered" /\ df = read_csv(ScenarioCsv)) =>
        /\ [n \in DOMAIN net.nodes |-> net.nodes[n].ntype] =
               (vendas_por_cidade :> "final_table") @@ (fato_vendas_df :> "dataframe")
               @@ (pedidos_clientes_df :> "dataframe") @@ (itens_produtos_df :> "dataframe")
               @@ (pedidos_df :> "dataframe") @@ (cliente_endereco_df :> "dataframe")
        /\ DOMAIN G.node = DOMAIN net.nodes
        /\ <<pedidos_clientes_df, fato_vendas_df>> \in DOMAIN G.edge
        /\ G.edge[<<pedidos_clientes_df, fato_vendas_df>>] = join_groupby
        /\ <<pedidos_df, pedidos_clientes_df>> \in DOMAIN G.edge
        /\ G.edge[<<pedidos_df, pedidos_clientes_df>>] = join

OrigemIs(row, mark) == ~isna(row.origem) /\ strip(row.origem) = <<mark>>

\* What a record folded with no origin may still add: its dataframe node,
\* its final table node and the edge between the two.
OwnNames(row) == {row_df_name(row), row_final_table(row)} \ {None}

NoOriginEffect(row, g, h) ==
    /\ DOMAIN h.node \ DOMAIN g.node \subseteq OwnNames(row)
    /\ DOMAIN h.edge \ DOMAIN g.edge \subseteq FinalEdgesOf(row)
    /\ \A e \in DOMAIN g.edge \ FinalEdgesOf(row) : e \in DOMAIN h.edge /\ h.edge[e] = g.edge[e]

\* C6 (as claimed): an origin field holding only a lone dash or a lone
\* em-dash parses to no origin, so folding the row adds no origin edge and
\* no node named after the placeholder.
C6_PlaceholderOrigin ==
    [][(FoldStep /\ (OrigemIs(df[i + 1], "-") \/ OrigemIs(df[i + 1], EmDash))) =>
          /\ row_origins(df[i + 1]) = <<>>
          /\ NoOriginEffect(df[i + 1], G, G')]_vars

\* C6 (amended): an origin field holding only a lone em-dash, possibly
\* surrounded by whitespace, parses to no origin, so folding the row adds
\* no origin edge and no origin node.
C6_EmDashOrigin ==
    [][(FoldStep /\ OrigemIs(df[i + 1], EmDash)) =>
          /\ row_origins(df[i + 1]) = <<>>
          /\ NoOriginEffect(df[i + 1], G, G')]_vars

C6_Witness ==
    /\ i = 2
    /\ OriginsOf(df[1]) # {}
    /\ OrigemIs(df[2], EmDash)
    /\ df[2].origem # <<EmDash>>
    /\ LinksFinal(df[2])
    /\ <<EmDash>> \notin DOMAIN G.node
    /\ DOMAIN G.edge = EdgesOf(df[1]) \cup FinalEdgesOf(df[2])

\* C7: folding a record with no origins and no dataframe name leaves the
\* node table and the edge table as they were.
C7_NoOriginsNoDfUnchanged ==
    [][(FoldStep /\ row_origins(df[i + 1]) = <<>> /\ ~HasDf(df[i + 1])) => G' = G]_vars

C7_Witness ==
    /\ i = 2
    /\ row_origins(df[2]) = <<>> /\ ~HasDf(df[2]) /\ HasFinal(df[2])
    /\ DOMAIN G.edge # {}
    /\ row_final_table(df[2]) \in DOMAIN G.node

\* C8 (as claimed): after a record with a final table only is folded, the
\* node named after the final table exists with type final_table (when it
\* did not exist before) and no edge was added.
FinalOnly(row) == HasFinal(row) /\ ~HasDf(row) /\ row_origins(row) = <<>>

C8_FinalOnlyCreatesNode ==
    [][(FoldStep /\ FinalOnly(df[i + 1])) =>
          /\ in_G(row_final_table(df[i + 1]), G')
          /\ ~in_G(row_final_table(df[i + 1]), G) =>
                 G'.node[row_final_table(df[i + 1])] = "final_table"
          /\ DOMAIN G'.edge = DOMAIN G.edge]_vars

\* C8 (amended): a record with a final table only creates no node and
\* adds no edge: its final table is a node afterwards exactly if it was
\* one before.
C8_FinalOnlyCreatesNothing ==
    [][(FoldStep /\ FinalOnly(df[i + 1])) =>
          /\ in_G(row_final_table(df[i + 1]), G') <=> in_G(row_final_table(df[i + 1]), G)
          /\ DOMAIN G'.node = DOMAIN G.node
          /\ DOMAIN G'.edge = DOMAIN G.edge]_vars

C8_Witness ==
    /\ i = 2
    /\ FinalOnly(df[2])
    /\ DOMAIN G.node # {}
    /\ row_final_table(df[2]) \notin DOMAIN G.node

\* C9: a dataframe name that was no node before its record is folded is a
\* node afterwards whose stored type is the classifier's answer for it,
\* with or without origins in the record; so every node of the returned
\* graph stores one of the four types.
C9_DfNodeTyped ==
    [][/\ (FoldStep /\ HasDf(df[i + 1]) /\ ~in_G(row_df_name(df[i + 1]), G)) =>
              /\ in_G(row_df_name(df[i + 1]), G')
              /\ G'.node[row_df_name(df[i + 1])] =
                     node_type_heuristic(row_df_name(df[i + 1]), row_final_table(df[i + 1]))
       /\ pc' = "returned" => \A n \in DOMAIN G'.node : G'.node[n] \in NodeTypes]_vars

\* C10: the classifier answers with the type of the first rule that
\* matches, in the order final table, dataframe, file, table, default.
Rule1 == h_final # None /\ h_name = h_final

Rule2 ==
    \/ endswith(h_name, <<"_", "d", "f">>)
    \/ startswith(h_name, <<"d", "f", "_">>)
    \/ contains(h_name, <<"f", "a", "t", "o">>)
    \/ contains(h_name, <<"v", "w", "_">>)

Rule3 ==
    \/ contains(h_name, <<"/">>)
    \/ endswith(h_name, <<".", "c", "s", "v">>)
    \/ endswith(h_name, <<".", "p", "a", "r", "q", "u", "e", "t">>)
    \/ startswith(h_name, <<"d", "a", "t", "a", "/">>)

Rule4 == contains(h_name, <<".">>)

C10_FirstMatchingRule ==
    pc = "h_done" =>
        /\ h_type \in NodeTypes
        /\ Rule1 => h_type = "final_table"
        /\ (~Rule1 /\ Rule2) => h_type = "dataframe"
        /\ (~Rule1 /\ ~Rule2 /\ Rule3) => h_type = "file"
        /\ (~Rule1 /\ ~Rule2 /\ ~Rule3 /\ Rule4) => h_type = "table"
        /\ (~Rule1 /\ ~Rule2 /\ ~Rule3 /\ ~Rule4) => h_type = "dataframe"

C10_Witness ==
    /\ pc = "h_done"
    /\ h_final = None
    /\ Rule2 /\ Rule3 /\ Rule4
    /\ h_type = "dataframe"

====
